---- MODULE Spec2Model ----
(***************************************************************************)
(* Model of olgm/herald/Feature (src/src/olgm/herald/feature.js): the       *)
(* herald that mirrors one ol3 vector feature into a google.maps.Data       *)
(* layer, together with the objects it touches: the ol feature and its      *)
(* geometry objects (with their listener lists), the data layer, the map    *)
(* surface that label and marker overlays attach to, and the Herald base    *)
(* class with its listenerKeys array.                                       *)
(*                                                                          *)
(* Every method of the herald is an operator from a world record to a world *)
(* record, translated statement by statement; an action applies one         *)
(* operator to the current world.  An exception is the field `threw`: the   *)
(* statements before the throwing one have taken effect, the later ones     *)
(* have not.                                                                *)
(***************************************************************************)
EXTENDS Integers, Sequences, FiniteSets, TLC

\* ---------------------------------------------------------------- bounds
NumGeoms == 2      \* geometry objects the application can attach to the feature
MaxKeys == 4       \* listener key objects referenced or subscribed at one time
MaxObjects == 2    \* activations that allocate gmap objects in one behaviour

\* ------------------------------------------------------------ value spaces
null == 0          \* a released reference: gmapFeature_, marker_, label_
NoGeometry == 0    \* feature_.getGeometry() of a feature without geometry
NoKey == 0         \* geometryChangeKey_ before the first activate
NullGeometry == -1 \* feature_.getGeometry() of a feature whose geometry is null

Geoms == 1..NumGeoms
Keys == 1..MaxKeys

\* A geometry's shape is its list of coordinates <<x, y>>: one coordinate is a
\* point, two a line string.
Shapes == { << <<1, 1>> >>, << <<0, 2>>, <<4, 0>> >> }
InitialShape == << <<1, 1>> >>

\* The feature's style: which parts it carries.  `image` says that
\* style.getImage() is an object, `icon` that the object is an ol.style.Icon
\* (a circle or a regular shape is an image that is not an Icon).
Styles == { [none |-> TRUE,  text |-> FALSE, image |-> FALSE, icon |-> FALSE],
            [none |-> FALSE, text |-> TRUE,  image |-> FALSE, icon |-> FALSE],
            [none |-> FALSE, text |-> FALSE, image |-> TRUE,  icon |-> TRUE],
            [none |-> FALSE, text |-> TRUE,  image |-> TRUE,  icon |-> TRUE],
            [none |-> FALSE, text |-> FALSE, image |-> TRUE,  icon |-> FALSE] }
CanvasOptions == {"undefined", "true", "false"}

\* What a listener key is subscribed to.
NoTarget == <<>>
FeatureTarget == <<"feature">>
GeometryTarget(g) == <<"geometry", g>>

VARIABLES
  geom,                \* feature_.getGeometry(): a geometry object or NoGeometry
  shape,               \* each geometry object's coordinates
  style,               \* getStyleOf(feature_)
  useCanvas,           \* mapIconOptions_.useCanvas
  visible_,
  gmapFeature_,
  marker_,
  label_,
  listenerKeys,        \* Herald's array of keys
  geometryChangeKey_,
  heraldActive,        \* Herald's active mark
  subs,                \* key -> what it is subscribed to, NoTarget when not live
  data,                \* data_: the mirror features in the data layer
  strays,              \* does the data layer hold anonymous features
  markersOnMap,        \* markers whose map is gmap
  labelsOnMap,         \* labels whose map is gmap
  mirrorGeometry,      \* each created gmap feature's geometry
  markerPosition,      \* each created marker's 'position'
  labelPosition,       \* each created label's 'position'
  nextObject,          \* the next gmap object the factories create
  reentered            \* was activate ever called on an active herald

vars == <<geom, shape, style, useCanvas, visible_, gmapFeature_, marker_, label_,
          listenerKeys, geometryChangeKey_, heraldActive, subs, data, strays,
          markersOnMap, labelsOnMap, mirrorGeometry, markerPosition,
          labelPosition, nextObject, reentered>>

\* The current world as one record, the argument of the method operators.
World ==
  [geom |-> geom, shape |-> shape, visible_ |-> visible_,
   gmapFeature_ |-> gmapFeature_, marker_ |-> marker_, label_ |-> label_,
   listenerKeys |-> listenerKeys, geometryChangeKey_ |-> geometryChangeKey_,
   heraldActive |-> heraldActive, subs |-> subs, data |-> data,
   strays |-> strays, markersOnMap |-> markersOnMap,
   labelsOnMap |-> labelsOnMap, mirrorGeometry |-> mirrorGeometry,
   markerPosition |-> markerPosition, labelPosition |-> labelPosition,
   nextObject |-> nextObject, threw |-> FALSE]

\* --------------------------------------------------------- pure helpers
\* F applied to the value of x, x being evaluated once.
Then(x, F(_)) == F(x)

Min(a, b) == IF a <= b THEN a ELSE b
Max(a, b) == IF a >= b THEN a ELSE b
Range(s) == { s[i] : i \in 1..Len(s) }

RECURSIVE MinX(_)
MinX(cs) == IF Len(cs) = 1 THEN cs[1][1] ELSE Min(cs[1][1], MinX(Tail(cs)))
RECURSIVE MaxX(_)
MaxX(cs) == IF Len(cs) = 1 THEN cs[1][1] ELSE Max(cs[1][1], MaxX(Tail(cs)))
RECURSIVE MinY(_)
MinY(cs) == IF Len(cs) = 1 THEN cs[1][2] ELSE Min(cs[1][2], MinY(Tail(cs)))
RECURSIVE MaxY(_)
MaxY(cs) == IF Len(cs) = 1 THEN cs[1][2] ELSE Max(cs[1][2], MaxY(Tail(cs)))

\* util.js getCenterOf: a point's coordinate, else the center of the extent.
getCenterOf(cs) ==
  IF Len(cs) = 1 THEN cs[1]
  ELSE << (MinX(cs) + MaxX(cs)) \div 2, (MinY(cs) + MaxY(cs)) \div 2 >>

\* gm.js createLatLng: an [x, y] coordinate becomes a LatLng(lat, lng).
createLatLng(c) == <<c[2], c[1]>>

\* gm.js createFeatureGeometry: the gmap geometry of an ol geometry.
createFeatureGeometry(cs) ==
  [type |-> IF Len(cs) = 1 THEN "Point" ELSE "LineString",
   latLngs |-> [i \in 1..Len(cs) |-> createLatLng(cs[i])]]

\* ------------------------------------------------ ol.Observable, the keys
\* A key object is in use while it is subscribed or referenced by the herald.
KeysInUse(w) ==
  { k \in Keys : w.subs[k] # NoTarget } \cup Range(w.listenerKeys)
    \cup ({w.geometryChangeKey_} \cap Keys)
FreeKeys(w) == Keys \ KeysInUse(w)
NewKey(w) == CHOOSE k \in FreeKeys(w) : \A j \in FreeKeys(w) : k <= j

\* The keys subscribed to a target.
Listeners(w, target) == { k \in Keys : w.subs[k] = target }

\* ol.Observable.unByKey(key): an unsubscribed or undefined key is left alone.
unByKey(w, k) ==
  IF k \in Keys THEN [w EXCEPT !.subs[k] = NoTarget] ELSE w

\* Array.prototype.indexOf, 0-based, -1 when absent.
indexOf(s, k) ==
  IF k \in Range(s) THEN (CHOOSE i \in 1..Len(s) : s[i] = k /\ \A j \in 1..(i - 1) : s[j] # k) - 1
  ELSE -1

\* Array.prototype.splice(index, 1): a negative index counts from the end.
splice1(s, index) ==
  LET start == IF index < 0 THEN Max(Len(s) + index, 0) ELSE Min(index, Len(s))
  IN  IF start >= Len(s) THEN s
      ELSE SubSeq(s, 1, start) \o SubSeq(s, start + 2, Len(s))

\* ------------------------------------------------------- collaborators
\* Herald.prototype.activate: marks the herald active.
HeraldActivate(w) == [w EXCEPT !.heraldActive = TRUE]

\* Herald.prototype.deactivate: unlistens every key of listenerKeys, empties
\* the array and marks the herald inactive.
HeraldDeactivate(w) ==
  [w EXCEPT !.subs = [k \in Keys |-> IF k \in Range(w.listenerKeys)
                                      THEN NoTarget ELSE w.subs[k]],
            !.listenerKeys = <<>>,
            !.heraldActive = FALSE]

\* observable.on(type, listener, this): subscribes the new key object `key`.
on(w, key, target) == [w EXCEPT !.subs[key] = target]

\* The geometry of a gmap feature made from a feature whose geometry is null.
NoMirrorGeometry == [type |-> "None", latLngs |-> <<>>]

\* gm.js createFeature: a new gmap feature holding the converted geometry.
createFeature(w) ==
  [w EXCEPT !.mirrorGeometry =
              w.mirrorGeometry @@
                (w.nextObject :> IF w.geom \in Geoms
                                 THEN createFeatureGeometry(w.shape[w.geom])
                                 ELSE NoMirrorGeometry),
            !.nextObject = w.nextObject + 1]

\* google.maps.Data add(feature).  Given null it creates an anonymous feature
\* in the layer, leaves the layer alone or throws: `outcome` picks which.
dataAdd(w, f, outcome) ==
  IF f # null THEN [w EXCEPT !.data = w.data \cup {f}]
  ELSE IF outcome = "stray" THEN [w EXCEPT !.strays = TRUE]
  ELSE IF outcome = "throw" THEN [w EXCEPT !.threw = TRUE]
  ELSE w

\* google.maps.Data remove(feature).  Given null it does nothing or throws:
\* `outcome` picks which.
dataRemove(w, f, outcome) ==
  IF f # null THEN [w EXCEPT !.data = w.data \ {f}]
  ELSE IF outcome = "throw" THEN [w EXCEPT !.threw = TRUE]
  ELSE w

\* What google.maps.Data does with a null argument is not fixed by the
\* source: every outcome is possible.  A feature object leaves no choice.
Outcomes(f) == IF f = null THEN {"stray", "ignore", "throw"} ELSE {"ignore"}

\* ------------------------------------------------- Feature.prototype.*
\* getGeometry_: asserts that the geometry is not undefined.
getGeometry_(w) ==
  IF w.geom = NoGeometry THEN [w EXCEPT !.threw = TRUE] ELSE w

\* WantsMarker with an undefined useCanvas read as true.
WantsMarker_CanvasByDefault ==
  ~style.none /\ style.image /\ style.icon /\ useCanvas # "false"

\* style.getImage() is an Icon and mapIconOptions_.useCanvas is true
\* (false when undefined).
WantsMarker == ~style.none /\ style.image /\ style.icon /\ useCanvas = "true"
WantsLabel == ~style.none /\ style.text

\* handleGeometryChange_ with the marker left where it was.
handleGeometryChange_MarkerForgotten(w) ==
  IF getGeometry_(w).threw THEN getGeometry_(w)
  ELSE IF w.gmapFeature_ = null THEN [w EXCEPT !.threw = TRUE]
  ELSE IF w.geom = NullGeometry
  THEN [w EXCEPT !.mirrorGeometry[w.gmapFeature_] = NoMirrorGeometry,
                 !.threw = (w.label_ # null \/ w.marker_ # null)]
  ELSE
    [w EXCEPT
      !.mirrorGeometry[w.gmapFeature_] = createFeatureGeometry(w.shape[w.geom]),
      !.labelPosition = IF w.label_ # null
                        THEN [w.labelPosition EXCEPT
                                ![w.label_] = createLatLng(getCenterOf(w.shape[w.geom]))]
                        ELSE w.labelPosition]

\* handleGeometryChange_ that also puts the gmap feature and the label back
\* where a visible herald has them.
handleGeometryChange_Reshows(w) ==
  IF getGeometry_(w).threw THEN getGeometry_(w)
  ELSE IF w.gmapFeature_ = null THEN [w EXCEPT !.threw = TRUE]
  ELSE IF w.geom = NullGeometry
  THEN [w EXCEPT !.mirrorGeometry[w.gmapFeature_] = NoMirrorGeometry,
                 !.threw = (w.label_ # null \/ w.marker_ # null)]
  ELSE
    Then(createLatLng(getCenterOf(w.shape[w.geom])), LAMBDA latLng :
      [w EXCEPT
        !.mirrorGeometry[w.gmapFeature_] = createFeatureGeometry(w.shape[w.geom]),
        !.data = w.data \cup {w.gmapFeature_},
        !.labelPosition = IF w.label_ # null
                          THEN [w.labelPosition EXCEPT ![w.label_] = latLng]
                          ELSE w.labelPosition,
        !.labelsOnMap = IF w.label_ # null
                        THEN w.labelsOnMap \cup {w.label_} ELSE w.labelsOnMap,
        !.markerPosition = IF w.marker_ # null
                           THEN [w.markerPosition EXCEPT ![w.marker_] = latLng]
                           ELSE w.markerPosition])

\* handleGeometryChange_.  A null geometry passes getGeometry_ and is
\* converted as createFeature converts it; the center of it cannot be
\* computed.
handleGeometryChange_(w) ==
  IF getGeometry_(w).threw THEN getGeometry_(w)
  ELSE IF w.gmapFeature_ = null THEN [w EXCEPT !.threw = TRUE]
  ELSE IF w.geom = NullGeometry
  THEN [w EXCEPT !.mirrorGeometry[w.gmapFeature_] = NoMirrorGeometry,
                 !.threw = (w.label_ # null \/ w.marker_ # null)]
  ELSE
    Then(createLatLng(getCenterOf(w.shape[w.geom])), LAMBDA latLng :
      [w EXCEPT
        !.mirrorGeometry[w.gmapFeature_] = createFeatureGeometry(w.shape[w.geom]),
        !.labelPosition = IF w.label_ # null
                          THEN [w.labelPosition EXCEPT ![w.label_] = latLng]
                          ELSE w.labelPosition,
        !.markerPosition = IF w.marker_ # null
                           THEN [w.markerPosition EXCEPT ![w.marker_] = latLng]
                           ELSE w.markerPosition])

\* handleGeometryReplace_ that only refreshes the mirror: the old geometry
\* keeps the listener, the new one gets none.
handleGeometryReplace_NoResubscribe(w) == handleGeometryChange_(w)

\* handleGeometryReplace_ that listens to the new geometry and registers the
\* key, but does not store it in geometryChangeKey_.
handleGeometryReplace_KeyNotStored(w) ==
  Then(unByKey(w, w.geometryChangeKey_), LAMBDA w1 :
  Then([w1 EXCEPT !.listenerKeys =
          splice1(w1.listenerKeys, indexOf(w1.listenerKeys, w1.geometryChangeKey_))],
       LAMBDA w2 :
    IF w2.geom \notin Geoms THEN [w2 EXCEPT !.threw = TRUE]
    ELSE
      Then(NewKey(w2), LAMBDA key :
        handleGeometryChange_(
          [on(w2, key, GeometryTarget(w2.geom)) EXCEPT
             !.listenerKeys = Append(w2.listenerKeys, key)]))))

\* handleGeometryReplace_ that listens to the new geometry and leaves the
\* mirror as it is until that geometry changes.
handleGeometryReplace_NoRefresh(w) ==
  Then(unByKey(w, w.geometryChangeKey_), LAMBDA w1 :
  Then([w1 EXCEPT !.listenerKeys =
          splice1(w1.listenerKeys, indexOf(w1.listenerKeys, w1.geometryChangeKey_))],
       LAMBDA w2 :
    IF w2.geom \notin Geoms THEN [w2 EXCEPT !.threw = TRUE]
    ELSE
      Then(NewKey(w2), LAMBDA key :
        [on(w2, key, GeometryTarget(w2.geom)) EXCEPT
           !.geometryChangeKey_ = key,
           !.listenerKeys = Append(w2.listenerKeys, key)])))

\* handleGeometryReplace_
handleGeometryReplace_(w) ==
  Then(unByKey(w, w.geometryChangeKey_), LAMBDA w1 :
  Then(indexOf(w1.listenerKeys, w1.geometryChangeKey_), LAMBDA index :
  Then([w1 EXCEPT !.listenerKeys = splice1(w1.listenerKeys, index)], LAMBDA w2 :
    IF w2.geom \notin Geoms THEN [w2 EXCEPT !.threw = TRUE]
    ELSE
      Then(NewKey(w2), LAMBDA key :
        handleGeometryChange_(
          [on(w2, key, GeometryTarget(w2.geom)) EXCEPT
             !.geometryChangeKey_ = key,
             !.listenerKeys = Append(w2.listenerKeys, key)])))))

\* activate, after the geometry was read: the gmap feature
activateFeature(w) ==
  Then([createFeature(w) EXCEPT !.gmapFeature_ = w.nextObject], LAMBDA w1 :
    IF w1.visible_ THEN dataAdd(w1, w1.gmapFeature_, "ignore") ELSE w1)

\* activate: the marker, when the style's image is an Icon drawn on a canvas
activateMarker(w, latLng) ==
  IF WantsMarker
  THEN [w EXCEPT !.marker_ = w.gmapFeature_,
                 !.markerPosition = w.markerPosition @@ (w.gmapFeature_ :> latLng),
                 !.markersOnMap = IF w.visible_
                                  THEN w.markersOnMap \cup {w.gmapFeature_}
                                  ELSE w.markersOnMap]
  ELSE w

\* activateLabel that puts the label on the map whatever visible_ is.
activateLabel_AlwaysOnMap(w, latLng) ==
  IF WantsLabel
  THEN [w EXCEPT !.label_ = w.gmapFeature_,
                 !.labelPosition = w.labelPosition @@ (w.gmapFeature_ :> latLng),
                 !.labelsOnMap = w.labelsOnMap \cup {w.gmapFeature_}]
  ELSE w

\* activate: the label, when the style has a text
activateLabel(w, latLng) ==
  IF WantsLabel
  THEN [w EXCEPT !.label_ = w.gmapFeature_,
                 !.labelPosition = w.labelPosition @@ (w.gmapFeature_ :> latLng),
                 !.labelsOnMap = IF w.visible_
                                 THEN w.labelsOnMap \cup {w.gmapFeature_}
                                 ELSE w.labelsOnMap]
  ELSE w

\* activate: the two event listeners
activateListeners(w) ==
  Then(NewKey(w), LAMBDA gkey :
  Then([on(w, gkey, GeometryTarget(w.geom)) EXCEPT
          !.geometryChangeKey_ = gkey,
          !.listenerKeys = Append(w.listenerKeys, gkey)], LAMBDA w1 :
  Then(NewKey(w1), LAMBDA fkey :
    [on(w1, fkey, FeatureTarget) EXCEPT
       !.listenerKeys = Append(w1.listenerKeys, fkey)])))

\* The calls of activate that can throw: the factories and conversions, and
\* no overlay factory that the style does not ask for.  With a null geometry
\* the center cannot be computed, so the overlay factories are not reached.
FailPoints(w) ==
  {"createFeature", "createStyle", "getCenterOf"}
    \cup (IF w.geom \in Geoms /\ WantsMarker THEN {"createMapIcon"} ELSE {})
    \cup (IF w.geom \in Geoms /\ WantsLabel THEN {"createLabel"} ELSE {})

\* activate in which the call named failAt throws: the statements before it
\* have taken effect, there is no handler that undoes them.
activateFailing(w, failAt) ==
  Then(getGeometry_(HeraldActivate(w)), LAMBDA w0 :
    IF w0.threw THEN w0
    ELSE IF failAt = "createFeature" THEN [w0 EXCEPT !.threw = TRUE]
    ELSE
      Then(activateFeature(w0), LAMBDA w1 :
        IF failAt \in {"createStyle", "getCenterOf"} \/ w1.geom \notin Geoms
        THEN [w1 EXCEPT !.threw = TRUE]
        ELSE
          Then(createLatLng(getCenterOf(w1.shape[w1.geom])), LAMBDA latLng :
            IF failAt = "createMapIcon" THEN [w1 EXCEPT !.threw = TRUE]
            ELSE [activateMarker(w1, latLng) EXCEPT !.threw = TRUE])))

\* activate.  (createStyle and data_.overrideStyle, between the gmap feature
\* and the overlays, change the rendering of the gmap feature and nothing that
\* is kept here.)  A null geometry passes getGeometry_; the center of it
\* cannot be computed.
activate(w) ==
  Then(getGeometry_(HeraldActivate(w)), LAMBDA w0 :
    IF w0.threw THEN w0
    ELSE IF w0.geom = NullGeometry THEN activateFailing(w, "getCenterOf")
    ELSE
      Then(createLatLng(getCenterOf(w0.shape[w0.geom])), LAMBDA latLng :
        activateListeners(
          activateLabel(activateMarker(activateFeature(w0), latLng), latLng))))

\* deactivate that does not call Herald.prototype.deactivate.
deactivate_NoHeraldDeactivate(w, outcome) ==
  Then(dataRemove(w, w.gmapFeature_, outcome), LAMBDA w1 :
    IF w1.threw THEN w1
    ELSE [w1 EXCEPT
           !.gmapFeature_ = null,
           !.markersOnMap = w1.markersOnMap \ {w1.marker_},
           !.marker_ = null,
           !.labelsOnMap = w1.labelsOnMap \ {w1.label_},
           !.label_ = null])

\* deactivate that leaves the gmap feature in the data layer.
deactivate_FeatureNotRemoved(w, outcome) ==
  HeraldDeactivate(
    [w EXCEPT
      !.gmapFeature_ = null,
      !.markersOnMap = w.markersOnMap \ {w.marker_},
      !.marker_ = null,
      !.labelsOnMap = w.labelsOnMap \ {w.label_},
      !.label_ = null])

\* deactivate that releases the label without taking it off the map.
deactivate_LabelNotDetached(w, outcome) ==
  Then(dataRemove(w, w.gmapFeature_, outcome), LAMBDA w1 :
    IF w1.threw THEN w1
    ELSE
      HeraldDeactivate(
        [w1 EXCEPT
          !.gmapFeature_ = null,
          !.markersOnMap = w1.markersOnMap \ {w1.marker_},
          !.marker_ = null,
          !.label_ = null]))

\* deactivate
deactivate(w, outcome) ==
  Then(dataRemove(w, w.gmapFeature_, outcome), LAMBDA w1 :
    IF w1.threw THEN w1
    ELSE
      HeraldDeactivate(
        [w1 EXCEPT
          !.gmapFeature_ = null,
          !.markersOnMap = IF w1.marker_ # null
                           THEN w1.markersOnMap \ {w1.marker_} ELSE w1.markersOnMap,
          !.marker_ = null,
          !.labelsOnMap = IF w1.label_ # null
                          THEN w1.labelsOnMap \ {w1.label_} ELSE w1.labelsOnMap,
          !.label_ = null]))

\* setVisible that shows the feature and the marker again, but not the label.
setVisible_LabelNotShown(w, value, outcome) ==
  IF value /\ ~w.visible_ THEN
    [dataAdd(w, w.gmapFeature_, outcome) EXCEPT
      !.markersOnMap = IF w.marker_ # null
                       THEN w.markersOnMap \cup {w.marker_} ELSE w.markersOnMap,
      !.visible_ = TRUE]
  ELSE IF ~value /\ w.visible_ THEN
    [dataRemove(w, w.gmapFeature_, outcome) EXCEPT
      !.markersOnMap = w.markersOnMap \ {w.marker_},
      !.labelsOnMap = w.labelsOnMap \ {w.label_},
      !.visible_ = FALSE]
  ELSE w

\* setVisible that toggles whatever the value.
setVisible_Toggle(w, value, outcome) ==
  IF ~w.visible_ THEN
    [dataAdd(w, w.gmapFeature_, outcome) EXCEPT
      !.markersOnMap = IF w.marker_ # null
                       THEN w.markersOnMap \cup {w.marker_} ELSE w.markersOnMap,
      !.labelsOnMap = IF w.label_ # null
                      THEN w.labelsOnMap \cup {w.label_} ELSE w.labelsOnMap,
      !.visible_ = TRUE]
  ELSE
    [dataRemove(w, w.gmapFeature_, outcome) EXCEPT
      !.markersOnMap = w.markersOnMap \ {w.marker_},
      !.labelsOnMap = w.labelsOnMap \ {w.label_},
      !.visible_ = FALSE]

\* setVisible
setVisible(w, value, outcome) ==
  IF value /\ ~w.visible_ THEN
    Then(dataAdd(w, w.gmapFeature_, outcome), LAMBDA w1 :
      IF w1.threw THEN w1
      ELSE
        [w1 EXCEPT
          !.markersOnMap = IF w1.marker_ # null
                           THEN w1.markersOnMap \cup {w1.marker_} ELSE w1.markersOnMap,
          !.labelsOnMap = IF w1.label_ # null
                          THEN w1.labelsOnMap \cup {w1.label_} ELSE w1.labelsOnMap,
          !.visible_ = TRUE])
  ELSE IF ~value /\ w.visible_ THEN
    Then(dataRemove(w, w.gmapFeature_, outcome), LAMBDA w1 :
      IF w1.threw THEN w1
      ELSE
        [w1 EXCEPT
          !.markersOnMap = IF w1.marker_ # null
                           THEN w1.markersOnMap \ {w1.marker_} ELSE w1.markersOnMap,
          !.labelsOnMap = IF w1.label_ # null
                          THEN w1.labelsOnMap \ {w1.label_} ELSE w1.labelsOnMap,
          !.visible_ = FALSE])
  ELSE w

\* ------------------------------------------- the application's calls on ol
\* The listeners of an event are called one after the other; an exception in
\* one leaves the later ones uncalled.
RECURSIVE DispatchChange(_, _)
DispatchChange(w, n) ==
  IF n = 0 \/ w.threw THEN w ELSE DispatchChange(handleGeometryChange_(w), n - 1)

RECURSIVE DispatchReplace(_, _)
DispatchReplace(w, n) ==
  IF n = 0 \/ w.threw THEN w ELSE DispatchReplace(handleGeometryReplace_(w), n - 1)

\* geometry g is mutated to shape s: its 'change' listeners run.
changed(w, g, s) ==
  DispatchChange([w EXCEPT !.shape[g] = s], Cardinality(Listeners(w, GeometryTarget(g))))

\* feature.setGeometry(g): 'change:geometry' listeners run when the value
\* differs from the old one.
setGeometry(w, g) ==
  IF g = w.geom THEN w
  ELSE DispatchReplace([w EXCEPT !.geom = g], Cardinality(Listeners(w, FeatureTarget)))

\* ------------------------------------------------------------ the machine
\* The herald as constructed: options.visible or its default, nothing
\* created, nothing subscribed.  The feature may not have a geometry yet.
\* An image that is not an Icon is tried with useCanvas on, the one setting
\* under which the kind of the image decides anything.
Init ==
  /\ geom \in {NoGeometry, 1}
  /\ shape = [g \in Geoms |-> InitialShape]
  /\ style \in Styles
  /\ useCanvas \in CanvasOptions
  /\ (style.image /\ ~style.icon) => useCanvas = "true"
  /\ visible_ \in BOOLEAN
  /\ gmapFeature_ = null
  /\ marker_ = null
  /\ label_ = null
  /\ listenerKeys = <<>>
  /\ geometryChangeKey_ = NoKey
  /\ heraldActive = FALSE
  /\ subs = [k \in Keys |-> NoTarget]
  /\ data = {}
  /\ strays = FALSE
  /\ markersOnMap = {}
  /\ labelsOnMap = {}
  /\ mirrorGeometry = <<>>
  /\ markerPosition = <<>>
  /\ labelPosition = <<>>
  /\ nextObject = 1
  /\ reentered = FALSE

\* Key objects and gmap objects have an identity and nothing else, so worlds
\* that differ only in the names of their keys are one world, and an object
\* nothing refers to any more is gone.  Keys are renamed by their place in
\* listenerKeys, then geometryChangeKey_, then the other subscribed keys.
\* The shape of a geometry that is neither attached nor listened to is seen
\* by nobody until the application attaches it, so it is not kept either:
\* SetGeometry gives the geometry it attaches the shape it then has.
RECURSIVE Sorted(_)
Sorted(S) ==
  IF S = {} THEN <<>>
  ELSE LET m == CHOOSE x \in S : \A y \in S : x <= y
       IN  <<m>> \o Sorted(S \ {m})

KeyOrder(w) ==
  LET held == IF w.geometryChangeKey_ \in Keys \ Range(w.listenerKeys)
              THEN <<w.geometryChangeKey_>> ELSE <<>>
      named == w.listenerKeys \o held
  IN  named \o Sorted({ k \in Keys : w.subs[k] # NoTarget } \ Range(named))

Place(s, k) == CHOOSE i \in 1..Len(s) : s[i] = k

Restrict(f, S) == [x \in DOMAIN f \cap S |-> f[x]]

Collected(w) ==
  Then(KeyOrder(w), LAMBDA ord :
      [w EXCEPT
        !.subs = [k \in Keys |-> IF k <= Len(ord) THEN w.subs[ord[k]] ELSE NoTarget],
        !.listenerKeys = [i \in 1..Len(w.listenerKeys) |-> i],
        !.geometryChangeKey_ = IF w.geometryChangeKey_ \in Keys
                               THEN Place(ord, w.geometryChangeKey_) ELSE NoKey,
        !.shape = [g \in Geoms |-> IF g = w.geom \/ Listeners(w, GeometryTarget(g)) # {}
                                    THEN w.shape[g] ELSE InitialShape],
        !.mirrorGeometry = Restrict(w.mirrorGeometry, w.data \cup {w.gmapFeature_}),
        !.markerPosition = Restrict(w.markerPosition, w.markersOnMap \cup {w.marker_}),
        !.labelPosition = Restrict(w.labelPosition, w.labelsOnMap \cup {w.label_})])

\* The world v becomes the current one.
Becomes(v) ==
  \E w \in {Collected(v)} :
  /\ geom' = w.geom
  /\ shape' = w.shape
  /\ visible_' = w.visible_
  /\ gmapFeature_' = w.gmapFeature_
  /\ marker_' = w.marker_
  /\ label_' = w.label_
  /\ listenerKeys' = w.listenerKeys
  /\ geometryChangeKey_' = w.geometryChangeKey_
  /\ heraldActive' = w.heraldActive
  /\ subs' = w.subs
  /\ data' = w.data
  /\ strays' = w.strays
  /\ markersOnMap' = w.markersOnMap
  /\ labelsOnMap' = w.labelsOnMap
  /\ mirrorGeometry' = w.mirrorGeometry
  /\ markerPosition' = w.markerPosition
  /\ labelPosition' = w.labelPosition
  /\ nextObject' = w.nextObject
  /\ UNCHANGED <<style, useCanvas>>

\* The call can be made within the bounds.
CanActivate ==
  /\ nextObject <= MaxObjects
  /\ Cardinality(FreeKeys(World)) >= 2

\* herald.activate() on a herald that is not active.
Activate ==
  /\ gmapFeature_ = null
  /\ CanActivate
  /\ Becomes(activate(World))
  /\ UNCHANGED reentered

\* herald.activate() on a herald that is already active.
ActivateAgain ==
  /\ gmapFeature_ # null
  /\ CanActivate
  /\ Becomes(activate(World))
  /\ reentered' = TRUE

\* herald.deactivate()
Deactivate ==
  \E outcome \in Outcomes(gmapFeature_) :
    /\ Becomes(deactivate(World, outcome))
    /\ UNCHANGED reentered

\* herald.setVisible(value)
SetVisible ==
  \E value \in BOOLEAN, outcome \in Outcomes(gmapFeature_) :
    /\ Becomes(setVisible(World, value, outcome))
    /\ UNCHANGED reentered

\* The application mutates geometry object g, attached or not.  (Mutating a
\* geometry that is neither attached nor listened to changes nothing kept.)
Changed ==
  \E g \in Geoms, s \in Shapes :
    /\ g = geom \/ Listeners(World, GeometryTarget(g)) # {}
    /\ Becomes(changed(World, g, s))
    /\ UNCHANGED reentered

\* The application calls feature.setGeometry(g) with another geometry
\* object, whose shape is s.
SetGeometry ==
  \E g \in Geoms, s \in Shapes :
    /\ g # geom
    /\ Listeners(World, GeometryTarget(g)) # {} => s = shape[g]
    /\ FreeKeys(World) # {}
    /\ Becomes(setGeometry([World EXCEPT !.shape[g] = s], g))
    /\ UNCHANGED reentered

\* The application calls feature.setGeometry(undefined).
RemoveGeometry ==
  /\ geom # NoGeometry
  /\ Becomes(setGeometry(World, NoGeometry))
  /\ UNCHANGED reentered

Next ==
  \/ Activate
  \/ Deactivate
  \/ SetVisible
  \/ Changed
  \/ SetGeometry
  \/ RemoveGeometry

\* The herald used as its owner uses it: activate only when not active.
Spec == Init /\ [][Next]_vars

NextAny ==
  \/ ~reentered /\ Activate
  \/ ~reentered /\ Deactivate
  \/ ~reentered /\ SetVisible
  \/ ~reentered /\ Changed
  \/ ~reentered /\ SetGeometry
  \/ ~reentered /\ RemoveGeometry
  \/ ActivateAgain

\* Any sequence of calls up to the first activate on an active herald, that
\* call and further ones of its kind included.  (The calls that follow it find
\* a herald that was already used against its contract; nothing is claimed
\* of them.)
SpecAny == Init /\ [][NextAny]_vars

\* herald.activate() on a herald that is not active, one of whose
\* collaborators throws.
ActivateFails ==
  /\ gmapFeature_ = null
  /\ geom # NoGeometry
  /\ CanActivate
  /\ \E failAt \in FailPoints(World) : Becomes(activateFailing(World, failAt))
  /\ UNCHANGED reentered

\* The application calls feature.setGeometry(null).
SetNullGeometry ==
  /\ geom # NullGeometry
  /\ Becomes(setGeometry(World, NullGeometry))
  /\ UNCHANGED reentered

NextFail ==
  \/ Next
  \/ ActivateFails
  \/ SetNullGeometry

\* The herald used as its owner uses it, with a feature whose geometry may be
\* null and collaborators that may throw.
SpecFail == Init /\ [][NextFail]_vars

\* The gmap feature of a second herald that shares the data layer.
OtherFeature == -1

\* The second herald puts its gmap feature, of shape s, in the data layer:
\* its activate or setVisible(true).
OtherShows ==
  \E s \in Shapes :
    /\ OtherFeature \notin data
    /\ Becomes([World EXCEPT
                  !.data = data \cup {OtherFeature},
                  !.mirrorGeometry =
                    (OtherFeature :> createFeatureGeometry(s)) @@ mirrorGeometry])
    /\ UNCHANGED reentered

\* The second herald takes its gmap feature out of the data layer: its
\* deactivate or setVisible(false).
OtherHides ==
  /\ OtherFeature \in data
  /\ Becomes([World EXCEPT !.data = data \ {OtherFeature}])
  /\ UNCHANGED reentered

\* The second herald's handleGeometryChange_: its gmap feature gets shape s.
OtherReshapes ==
  \E s \in Shapes :
    /\ OtherFeature \in data
    /\ Becomes([World EXCEPT
                  !.mirrorGeometry[OtherFeature] = createFeatureGeometry(s)])
    /\ UNCHANGED reentered

NextShared ==
  \/ Next
  \/ OtherShows
  \/ OtherHides
  \/ OtherReshapes

\* The herald and a second one on the same data layer, their calls
\* interleaved.
SpecShared == Init /\ [][NextShared]_vars

\* ------------------------------------------------------------ vocabulary
Active == gmapFeature_ # null
LiveKeys(w) == { k \in Keys : w.subs[k] # NoTarget }
MirrorOf(cs) == createFeatureGeometry(cs)
CenterOf(cs) == createLatLng(getCenterOf(cs))

\* The mirror and the overlays of world w show shape cs.
Shows(w, cs) ==
  /\ w.mirrorGeometry[w.gmapFeature_] = MirrorOf(cs)
  /\ w.label_ # null => w.labelPosition[w.label_] = CenterOf(cs)
  /\ w.marker_ # null => w.markerPosition[w.marker_] = CenterOf(cs)

\* listenerKeys after a geometry replacement of this activation: the
\* geometry key was spliced out and pushed behind the feature key.
Resubscribed == Len(listenerKeys) = 2 /\ geometryChangeKey_ = listenerKeys[2]

\* ------------------------------------------------------------------- C1
\* C1: on a herald that is not active and whose feature has a geometry,
\* activate() and then at once deactivate() leaves listenerKeys empty, leaves
\* no subscription live that was not live before (none at all when none was),
\* and leaves the mirror feature that activate created out of the data layer.
C1_ActivateThenDeactivate ==
  (~Active /\ geom # NoGeometry /\ CanActivate) =>
    \A a \in {activate(World)} : \A d \in {deactivate(a, "ignore")} :
      /\ ~a.threw /\ ~d.threw
      /\ a.gmapFeature_ # null
      /\ d.listenerKeys = <<>>
      /\ LiveKeys(d) \subseteq LiveKeys(World)
      /\ LiveKeys(World) = {} => \A k \in Keys : d.subs[k] = NoTarget
      /\ a.gmapFeature_ \notin d.data
      /\ d.gmapFeature_ = null

\* A herald that was activated and deactivated, with nothing left behind.
C1_Witness ==
  /\ ~Active /\ nextObject > 1 /\ geom # NoGeometry
  /\ listenerKeys = <<>> /\ LiveKeys(World) = {} /\ data = {}
  /\ visible_
  /\ activate(World).gmapFeature_ \in activate(World).data

\* ------------------------------------------------------------------- C2
\* C2: whatever setVisible calls, geometry mutations and geometry
\* replacements follow activate, after deactivate() no subscription of the
\* herald is live on the feature or on any geometry: a herald that is not
\* active has no live key.
C2_NoSubscriptionOutlivesDeactivate ==
  ~Active => LiveKeys(World) = {}

\* ------------------------------------------------------------------- C3
\* C3: while the herald is active and the feature has a geometry,
\* geometryChangeKey_ is a live key subscribed to that geometry object.
C3_ChangeKeyOnCurrentGeometry ==
  (Active /\ geom # NoGeometry) =>
    /\ geometryChangeKey_ \in Keys
    /\ subs[geometryChangeKey_] = GeometryTarget(geom)

\* An active herald whose geometry was replaced, by an object other than the
\* first one, the key being on the replacement.
C3_Witness ==
  /\ Active /\ Resubscribed /\ geom = 2
  /\ subs[geometryChangeKey_] = GeometryTarget(2)

\* ------------------------------------------------------------------- C4
\* C4: on an active herald, after the feature's geometry is replaced by
\* another geometry object (of any shape s0) and that new object is then
\* mutated to shape s, the mirror feature's geometry is the conversion of s
\* and every label and marker is at the center of s.  It holds in every
\* reachable state, so after any number of replacements.
C4_ReplaceThenMutate ==
  (Active /\ geom # NoGeometry /\ FreeKeys(World) # {}) =>
    \A g \in Geoms \ {geom} : \A s0, s \in Shapes :
      (Listeners(World, GeometryTarget(g)) # {} => s0 = shape[g]) =>
        \A r \in {setGeometry([World EXCEPT !.shape[g] = s0], g)} :
        \A m \in {changed(r, g, s)} :
          /\ ~r.threw /\ ~m.threw
          /\ m.geom = g
          /\ Shows(m, s)

\* An active herald with a label after a replacement, whose replacement
\* geometry has then taken another shape which the mirror and label show.
C4_Witness ==
  /\ Active /\ Resubscribed /\ geom = 2 /\ label_ # null
  /\ shape[geom] # InitialShape
  /\ Shows(World, shape[geom])
  /\ \E s \in Shapes : ~Shows(World, s)

\* ------------------------------------------------------------------- C5
\* C5: while the herald is active, when the mutation of the current geometry
\* to any shape s returns, the mirror feature's geometry is the conversion of
\* s and every existing label and marker is at the mirror coordinate of the
\* center of s.
C5_MutationShown ==
  (Active /\ geom # NoGeometry) =>
    \A s \in Shapes : \A m \in {changed(World, geom, s)} :
      /\ ~m.threw
      /\ Shows(m, s)
      /\ m.shape[geom] = s

\* An active herald with label and marker whose first geometry was mutated:
\* mirror, label and marker show the new shape.
C5_Witness ==
  /\ Active /\ ~Resubscribed /\ geom = 1 /\ shape[1] # InitialShape
  /\ label_ # null /\ marker_ # null
  /\ Shows(World, shape[1])
  /\ labelPosition[label_] # CenterOf(InitialShape)

\* ------------------------------------------------------------------- C6
\* C6: on an active, visible herald, setVisible(false) takes the mirror
\* feature out of the data layer and the overlays off the map, and
\* setVisible(true) after it gives back the world as it was: the same gmap
\* feature in the data layer, the same label and marker on the map, no object
\* created, listenerKeys and the subscriptions unchanged.
C6_HideThenShow ==
  (Active /\ visible_) =>
    \A h \in {setVisible(World, FALSE, "ignore")} :
    \A v \in {setVisible(h, TRUE, "ignore")} :
      /\ gmapFeature_ \in data
      /\ gmapFeature_ \notin h.data /\ ~h.visible_
      /\ label_ # null => label_ \in labelsOnMap /\ label_ \notin h.labelsOnMap
      /\ marker_ # null => marker_ \in markersOnMap /\ marker_ \notin h.markersOnMap
      /\ v.visible_
      /\ v.gmapFeature_ = gmapFeature_ /\ v.data = data
      /\ v.label_ = label_ /\ v.labelsOnMap = labelsOnMap
      /\ v.marker_ = marker_ /\ v.markersOnMap = markersOnMap
      /\ v.nextObject = nextObject
      /\ v.listenerKeys = listenerKeys /\ v.subs = subs
      /\ h.listenerKeys = listenerKeys /\ h.subs = subs
      /\ v = World

\* An active, visible herald with label and marker in its second activation,
\* everything in place.
C6_Witness ==
  /\ Active /\ visible_ /\ label_ # null /\ marker_ # null
  /\ gmapFeature_ = 2 /\ data = {2} /\ labelsOnMap = {2} /\ markersOnMap = {2}
  /\ setVisible(World, FALSE, "ignore").data = {}

\* ------------------------------------------------------------------- C7
\* C7: setVisible(v) when visible_ already is v changes nothing, and
\* setVisible(v) twice gives the world that setVisible(v) once gives.
C7_SetVisibleIdempotent ==
  \A value \in BOOLEAN : \A outcome \in Outcomes(gmapFeature_) :
    \A once \in {setVisible(World, value, outcome)} :
      /\ visible_ = value => once = World
      /\ setVisible(once, value, outcome) = once

\* A hidden active herald with a label: a second setVisible(false) finds
\* nothing to remove.
C7_Witness ==
  /\ Active /\ ~visible_ /\ label_ # null
  /\ gmapFeature_ \notin data /\ labelsOnMap = {}
  /\ setVisible(World, TRUE, "ignore") # World

\* ------------------------------------------------------------------- C8
\* C8, as stated: whatever the calls, the data layer holds at most one mirror
\* feature of this herald and the map at most one label and one marker of it.
C8_AtMostOneOfEach ==
  /\ Cardinality(data) <= 1
  /\ Cardinality(labelsOnMap) <= 1
  /\ Cardinality(markersOnMap) <= 1

\* C8, amended: as long as activate() was only called on a herald that was
\* not active, an active herald has one gmap feature, the data layer holds no
\* gmap feature of the herald but that one, and the map holds no label or
\* marker of the herald but label_ and marker_.
C8_OneOfEachUnlessReentered ==
  ~reentered =>
    /\ Active => DOMAIN mirrorGeometry = {gmapFeature_}
    /\ data \subseteq {gmapFeature_} \ {null}
    /\ labelsOnMap \subseteq {label_} \ {null}
    /\ markersOnMap \subseteq {marker_} \ {null}
    /\ Cardinality(data) <= 1
    /\ Cardinality(labelsOnMap) <= 1
    /\ Cardinality(markersOnMap) <= 1

\* The second activation of a herald that was deactivated in between: one
\* feature, one label, one marker.
C8_Witness ==
  /\ ~reentered /\ Active /\ gmapFeature_ = 2
  /\ data = {2} /\ labelsOnMap = {2} /\ markersOnMap = {2}
  /\ DOMAIN mirrorGeometry = {2}

\* ------------------------------------------------------------------- C9
\* C9: a call made while the herald is not active, and that leaves it not
\* active, changes neither visible_ nor what is in the data layer or on the
\* map.
C9_NothingChangesWhileInactive ==
  [][(gmapFeature_ = null /\ gmapFeature_' = null) =>
       /\ visible_' = visible_
       /\ data' = data
       /\ strays' = strays
       /\ labelsOnMap' = labelsOnMap
       /\ markersOnMap' = markersOnMap]_vars

\* ------------------------------------------------------------------ C10
\* C10: on an active herald setVisible, with either value, leaves
\* gmapFeature_, label_ and marker_ the objects they were, and those objects
\* in being; deactivate(), from the visible and from the hidden state, leaves
\* the gmap feature out of the data layer, no label and no marker on the
\* map, and gmapFeature_, marker_ and label_ null.
C10_ToggleKeepsDeactivateReleases ==
  Active =>
    /\ \A value \in BOOLEAN : \A t \in {setVisible(World, value, "ignore")} :
         /\ t.gmapFeature_ = gmapFeature_ /\ t.label_ = label_ /\ t.marker_ = marker_
         /\ t.mirrorGeometry = mirrorGeometry
         /\ t.labelPosition = labelPosition /\ t.markerPosition = markerPosition
         /\ t.nextObject = nextObject
    /\ \A d \in {deactivate(World, "ignore")} :
         /\ gmapFeature_ \notin d.data /\ d.data = {}
         /\ d.labelsOnMap = {} /\ d.markersOnMap = {}
         /\ d.gmapFeature_ = null /\ d.marker_ = null /\ d.label_ = null

\* A herald deactivated while hidden, that had a label and a marker.
C10_Witness ==
  /\ ~Active /\ nextObject > 1 /\ ~visible_ /\ WantsLabel /\ WantsMarker
  /\ label_ = null /\ marker_ = null
  /\ data = {} /\ labelsOnMap = {} /\ markersOnMap = {}
  /\ DOMAIN labelPosition = {}

\* ------------------------------------------------------------------ C11
\* C11: after activate() on a herald that is not active and whose feature
\* has a geometry, a label exists exactly when the style has a text part, and
\* a marker exists exactly when the style's image is an Icon and useCanvas is
\* true (an undefined useCanvas counts as false); a null style gives
\* neither.  The same holds in every state in which the herald is active.
C11_OverlaysFollowStyle ==
  /\ (~Active /\ geom # NoGeometry /\ CanActivate) =>
       \A a \in {activate(World)} :
         /\ ~a.threw
         /\ a.label_ # null <=> (~style.none /\ style.text)
         /\ a.marker_ # null <=>
              (~style.none /\ style.image /\ style.icon /\ useCanvas = "true")
         /\ style.none => (a.label_ = null /\ a.marker_ = null)
  /\ Active =>
       /\ label_ # null <=> (~style.none /\ style.text)
       /\ marker_ # null <=>
            (~style.none /\ style.image /\ style.icon /\ useCanvas = "true")

\* An active herald whose style has a text and an Icon, useCanvas undefined:
\* a label and no marker.
C11_Witness ==
  /\ Active /\ style.text /\ style.icon /\ useCanvas = "undefined"
  /\ label_ # null /\ marker_ = null

\* ------------------------------------------------------------------ C12
\* C12: activate() on a herald that is not active and whose feature has no
\* geometry, undefined or null, throws from the assertion of getGeometry_,
\* and has then created no gmap feature, put nothing in the data layer,
\* created no overlay and subscribed to nothing.
C12_NoGeometryFailsFirst ==
  (gmapFeature_ = null /\ geom \notin Geoms /\ CanActivate) =>
    /\ getGeometry_(HeraldActivate(World)).threw
    /\ \A failAt \in FailPoints(World) :
         \A r \in {activateFailing(World, failAt)} :
           /\ r.threw
           /\ r.gmapFeature_ = null /\ r.nextObject = nextObject
           /\ r.data = data /\ r.mirrorGeometry = mirrorGeometry
           /\ r.marker_ = null /\ r.label_ = null
           /\ r.markersOnMap = markersOnMap /\ r.labelsOnMap = labelsOnMap
           /\ r.subs = subs /\ r.listenerKeys = listenerKeys

\* ------------------------------------------------------------------ C13
\* C13: when a call made by activate() throws, on a herald that was not
\* active, the herald is left not active and can be activated again: it
\* holds no gmap feature, marker or label, the data layer and the map are as
\* they were, no key is registered or subscribed that was not before, and an
\* activate() that then succeeds leaves exactly one gmap feature of the herald
\* (the one it holds) in the data layer of a visible herald and none in that
\* of a hidden one.
C13_FailedActivateLeavesNothing ==
  (gmapFeature_ = null /\ CanActivate) =>
    \A failAt \in FailPoints(World) :
      \A r \in {activateFailing(World, failAt)} :
        /\ r.threw
        /\ r.gmapFeature_ = null /\ r.marker_ = null /\ r.label_ = null
        /\ r.data = data
        /\ r.markersOnMap = markersOnMap /\ r.labelsOnMap = labelsOnMap
        /\ r.listenerKeys = listenerKeys /\ LiveKeys(r) = LiveKeys(World)
        /\ (geom \in Geoms /\ r.nextObject <= MaxObjects) =>
             \A a \in {activate([r EXCEPT !.threw = FALSE])} :
               /\ ~a.threw
               /\ a.data \ data = (IF a.visible_ THEN {a.gmapFeature_} ELSE {})

\* ------------------------------------------------------------------ C14
\* C14: deactivate() on an active herald followed at once by a second
\* deactivate(): the second call throws nothing and leaves the world (data
\* layer, overlays on the map, gmapFeature_, marker_, label_, listenerKeys,
\* subscriptions, visible_) as the first call left it.
C14_SecondDeactivateNoOp ==
  Active =>
    \A first \in {deactivate(World, "ignore")} :
      \A outcome \in Outcomes(first.gmapFeature_) :
        \A second \in {deactivate(first, outcome)} :
          /\ ~second.threw
          /\ second = first

\* ------------------------------------------------------------------ C15
\* C15: with a second herald on the same data layer, every call of this
\* herald (activate, deactivate, setVisible, its handlers run by a geometry
\* mutation or replacement) adds to and removes from the data layer nothing
\* but this herald's own gmap feature, and leaves the second herald's gmap
\* feature in or out of the layer as it was, with the geometry it had.
C15_OnlyOwnFeatureTouched ==
  [][Next =>
       /\ OtherFeature \in data' <=> OtherFeature \in data
       /\ OtherFeature \in data =>
            mirrorGeometry'[OtherFeature] = mirrorGeometry[OtherFeature]
       /\ (data' \ data) \cup (data \ data') \subseteq {gmapFeature_, gmapFeature_'}
       /\ strays' = strays]_vars

\* ------------------------------------------------------------------ C16
\* C16: on an active herald, when feature.setGeometry(g) with another
\* geometry object g, of any shape s, returns (nothing having mutated g
\* since), the mirror feature's geometry is the conversion of s and every
\* label and marker is at the center of s, and g is what the herald's
\* geometry key listens to.
C16_ReplaceShowsNewGeometry ==
  (Active /\ FreeKeys(World) # {}) =>
    \A g \in Geoms \ {geom}, s \in Shapes :
      (Listeners(World, GeometryTarget(g)) # {} => s = shape[g]) =>
        \A r \in {setGeometry([World EXCEPT !.shape[g] = s], g)} :
          /\ ~r.threw
          /\ r.geom = g /\ r.shape[g] = s
          /\ Shows(r, s)
          /\ r.geometryChangeKey_ \in Keys
          /\ r.subs[r.geometryChangeKey_] = GeometryTarget(g)

\* An active herald with a marker that shows a point at geometry 1, and
\* shows a line string once the feature's geometry is replaced by one.
C16_Witness ==
  /\ Active /\ geom = 1 /\ marker_ # null /\ FreeKeys(World) # {}
  /\ Listeners(World, GeometryTarget(2)) = {}
  /\ Shows(World, InitialShape)
  /\ \E s \in Shapes :
       /\ ~Shows(World, s)
       /\ Shows(setGeometry([World EXCEPT !.shape[2] = s], 2), s)

\* ------------------------------------------------------------------ C17
\* C17: in every state in which the herald is active, listenerKeys holds
\* exactly two keys: the key of the 'change:geometry' listener on the feature
\* and geometryChangeKey_, which listens to the current geometry; and no key
\* listens to a geometry object that is not the current one.
C17_TwoHandlesWhileActive ==
  Active =>
    /\ Len(listenerKeys) = 2
    /\ \E i, j \in 1..Len(listenerKeys) :
         /\ i # j
         /\ subs[listenerKeys[i]] = FeatureTarget
         /\ listenerKeys[j] = geometryChangeKey_
         /\ geom \in Geoms => subs[listenerKeys[j]] = GeometryTarget(geom)
    /\ \A g \in Geoms \ {geom} : Listeners(World, GeometryTarget(g)) = {}

\* ------------------------------------------------------------------ C20
\* C20: while the herald is not active (gmapFeature_ is null), a mutation of
\* any geometry object and a replacement of the feature's geometry call
\* neither handleGeometryChange_ nor handleGeometryReplace_: no listener of
\* the herald is there to be called, nothing is thrown, and the data layer,
\* listenerKeys and the subscriptions are as before.
C20_NoHandlerWhileInactive ==
  ~Active =>
    /\ \A g \in Geoms, s \in Shapes :
         /\ Listeners(World, GeometryTarget(g)) = {}
         /\ \A r \in {changed(World, g, s)} :
              /\ ~r.threw
              /\ r.data = data /\ r.strays = strays
              /\ r.listenerKeys = listenerKeys /\ r.subs = subs
    /\ \A g \in (Geoms \cup {NoGeometry}) \ {geom} :
         /\ Listeners(World, FeatureTarget) = {}
         /\ FreeKeys(World) # {} =>
              \A r \in {setGeometry(World, g)} :
                /\ ~r.threw
                /\ r.data = data /\ r.strays = strays
                /\ r.listenerKeys = listenerKeys /\ r.subs = subs

\* ------------------------------------------------------------------ C18
\* C18: with activate called only on a herald that is not active, in every
\* state in which the herald is active its gmap feature is in the data layer
\* exactly when visible_ is true, and its label and its marker, when they
\* exist, are on the map exactly when visible_ is true.
C18_ShownIffVisible ==
  Active =>
    /\ gmapFeature_ \in data <=> visible_
    /\ label_ # null => (label_ \in labelsOnMap <=> visible_)
    /\ marker_ # null => (marker_ \in markersOnMap <=> visible_)

\* A herald activated a second time while hidden: feature, label and marker
\* exist and none of them is shown.
C18_Witness ==
  /\ Active /\ ~visible_ /\ gmapFeature_ = 2
  /\ label_ # null /\ marker_ # null
  /\ data = {} /\ labelsOnMap = {} /\ markersOnMap = {}

\* ------------------------------------------------------------------ C19
\* C19: handleGeometryChange_, called by a mutation of a geometry the herald
\* listens to, changes the geometry of the herald's gmap feature and the
\* position of the label and the marker that exist, and nothing else: the
\* same gmapFeature_, label_ and marker_ (none created, none released), the
\* same visible_, the same features in the data layer, the same overlays on
\* the map, the same listenerKeys and subscriptions, and the geometry and
\* positions of every other gmap object as before.
C19_ChangeOnlyReshapes ==
  \A g \in Geoms, s \in Shapes :
    (g = geom \/ Listeners(World, GeometryTarget(g)) # {}) =>
      \A r \in {changed(World, g, s)} :
        /\ r.gmapFeature_ = gmapFeature_
        /\ r.label_ = label_ /\ r.marker_ = marker_
        /\ r.nextObject = nextObject
        /\ r.visible_ = visible_
        /\ r.data = data /\ r.strays = strays
        /\ r.labelsOnMap = labelsOnMap /\ r.markersOnMap = markersOnMap
        /\ r.listenerKeys = listenerKeys /\ r.subs = subs
        /\ r.geometryChangeKey_ = geometryChangeKey_
        /\ r.heraldActive = heraldActive
        /\ DOMAIN r.mirrorGeometry = DOMAIN mirrorGeometry
        /\ DOMAIN r.labelPosition = DOMAIN labelPosition
        /\ DOMAIN r.markerPosition = DOMAIN markerPosition
        /\ \A x \in DOMAIN mirrorGeometry \ {gmapFeature_} :
             r.mirrorGeometry[x] = mirrorGeometry[x]
        /\ \A x \in DOMAIN labelPosition \ {label_} :
             r.labelPosition[x] = labelPosition[x]
        /\ \A x \in DOMAIN markerPosition \ {marker_} :
             r.markerPosition[x] = markerPosition[x]

\* A hidden active herald with a label, whose geometry is about to be
\* mutated: the handler moves the label and shows nothing.
C19_Witness ==
  /\ Active /\ ~visible_ /\ geom = 1 /\ label_ # null
  /\ Listeners(World, GeometryTarget(1)) # {}
  /\ data = {} /\ labelsOnMap = {}
  /\ \E s \in Shapes :
       /\ changed(World, 1, s).labelPosition[label_] # labelPosition[label_]
       /\ changed(World, 1, s).data = {}

====
